---------------------------- MODULE Spec2Model ----------------------------
(***************************************************************************)
(* Model of generate_legacy_docs.py (LegacyDocGenerator).                  *)
(*                                                                         *)
(* Source text is a sequence of tokens.  A token is a maximal piece of    *)
(* text that every regular expression of the program treats as a unit:    *)
(* the marker "///", an XML tag, a run of word characters, one white      *)
(* space character, one punctuation character.  Texts are built from the  *)
(* source fragments below, in which two word tokens are never adjacent,   *)
(* so the token sequence of a text is unique and a \w+ of the program     *)
(* matches exactly one word token.                                        *)
(***************************************************************************)
EXTENDS Integers, Sequences, FiniteSets, TLC

(* ------------------------------ bounds -------------------------------- *)
MaxFrags == 3
MaxFiles == 3

(* ------------------------------ tokens -------------------------------- *)
SP == " "
NL == "\n"
WS == {SP, NL}
Kinds == {"class", "enum", "interface"}
ParamOpen == {"<param name=\"a\">", "<param name=\"b\">"}
Words == {"public", "private", "class", "enum", "interface", "int",
          "Foo", "Bar", "Add", "Count", "Get", "get", "x", "a", "b",
          "Computes", "sum", "first", "second", "Represents", "note"}

\* the text of group 1 of <param name="([^"]+)">
ParamName(tok) == IF tok = "<param name=\"a\">" THEN "a" ELSE "b"

(* -------------------------- source fragments --------------------------- *)
\* /// <summary>Computes sum</summary>
F_SUM == <<"///", SP, "<summary>", "Computes", SP, "sum", "</summary>", NL>>
\* /// <summary>
\* /// Represents Foo
\* /// </summary>
F_SUMML == <<"///", SP, "<summary>", NL, "///", SP, "Represents", SP, "Foo", NL,
             "///", SP, "</summary>", NL>>
\* /// <param name="a">first</param>
\* /// <param name="b">second</param>
\* /// <returns>sum</returns>
F_PARAMS == <<"///", SP, "<param name=\"a\">", "first", "</param>", NL,
              "///", SP, "<param name=\"b\">", "second", "</param>", NL,
              "///", SP, "<returns>", "sum", "</returns>", NL>>
\* public int Add(int a, int b) {
F_ADD == <<"public", SP, "int", SP, "Add", "(", "int", SP, "a", ",", SP,
           "int", SP, "b", ")", SP, "{", NL>>
\* public class Foo
\* {
F_CLASS == <<"public", SP, "class", SP, "Foo", NL, "{", NL>>
\* public enum Bar {
F_ENUM == <<"public", SP, "enum", SP, "Bar", SP, "{", NL>>
\* public Foo(int a) {
F_CTOR == <<"public", SP, "Foo", "(", "int", SP, "a", ")", SP, "{", NL>>
\* public  Foo() {          (two spaces after the modifier)
F_CTOR2 == <<"public", SP, SP, "Foo", "(", ")", SP, "{", NL>>
\* public int Count { get; }
F_PROP == <<"public", SP, "int", SP, "Count", SP, "{", SP, "get", ";", SP, "}", NL>>
\* public int Count { Get(); }
F_PROPM == <<"public", SP, "int", SP, "Count", SP, "{", SP, "Get", "(", ")", ";",
             SP, "}", NL>>
\* private int x;
F_FIELD == <<"private", SP, "int", SP, "x", ";", NL>>
\* // note
F_NOTE == <<"//", SP, "note", NL>>
\* public int Count {{
F_PROP2 == <<"public", SP, "int", SP, "Count", SP, "{", "{", NL>>

Fragments == <<F_SUM, F_SUMML, F_PARAMS, F_ADD, F_CLASS, F_ENUM, F_CTOR,
               F_CTOR2, F_PROP, F_PROPM, F_FIELD, F_NOTE, F_PROP2>>

RECURSIVE Concat(_)
Concat(ss) == IF ss = <<>> THEN <<>> ELSE Head(ss) \o Concat(Tail(ss))

\* the file contents made of the fragments numbered by fs
TextOf(fs) == Concat([n \in 1..Len(fs) |-> Fragments[fs[n]]])

FragSeqs == UNION {[1..n -> 1..Len(Fragments)] : n \in 0..MaxFrags}

(* ------------------------ Python values ------------------------------- *)
None == <<>>
Some(x) == <<x>>

(* ------------------------ regular expressions -------------------------- *)
\* the items of a pattern
Lit(t) == [k |-> "lit", toks |-> {t}, min |-> 0, dotall |-> FALSE, g |-> 0]
OneOf(S, g) == [k |-> "lit", toks |-> S, min |-> 0, dotall |-> FALSE, g |-> g]
Word(g) == [k |-> "lit", toks |-> Words, min |-> 0, dotall |-> FALSE, g |-> g]
WsStar == [k |-> "ws", toks |-> WS, min |-> 0, dotall |-> FALSE, g |-> 0]
WsPlus == [k |-> "ws", toks |-> WS, min |-> 1, dotall |-> FALSE, g |-> 0]
Lazy(dotall, g) == [k |-> "lazy", toks |-> {}, min |-> 0, dotall |-> dotall, g |-> g]
Ahead(S) == [k |-> "ahead", toks |-> S, min |-> 0, dotall |-> FALSE, g |-> 0]

NoCaps == <<<<0, 0>>, <<0, 0>>, <<0, 0>>>>
NoMatch == [ok |-> FALSE, start |-> 0, end |-> 0, caps |-> NoCaps]

SetCap(caps, g, from, to) ==
    IF g = 0 THEN caps ELSE [caps EXCEPT ![g] = <<from, to>>]

\* the number of tokens of S at pos, pos+1, ...
RECURSIVE Run(_, _, _)
Run(s, pos, S) ==
    IF pos <= Len(s) /\ s[pos] \in S THEN 1 + Run(s, pos + 1, S) ELSE 0

\* the number of tokens other than t at pos, pos+1, ...
RECURSIVE RunUntil(_, _, _)
RunUntil(s, pos, t) ==
    IF pos <= Len(s) /\ s[pos] # t THEN 1 + RunUntil(s, pos + 1, t) ELSE 0

\* the number of tokens a "." can take from pos on (no newline without DOTALL)
DotRun(s, pos, dotall) ==
    IF dotall THEN Len(s) - pos + 1 ELSE RunUntil(s, pos, NL)

\* Python's backtracking matcher: the first match of pat[k..] at pos, a
\* greedy item trying its longest run first and a lazy one its shortest.
RECURSIVE MatchFrom(_, _, _, _, _)
RECURSIVE TryGreedy(_, _, _, _, _, _)
RECURSIVE TryLazy(_, _, _, _, _, _, _)
MatchFrom(s, pat, k, pos, caps) ==
    IF k > Len(pat) THEN [ok |-> TRUE, start |-> 0, end |-> pos, caps |-> caps]
    ELSE LET it == pat[k] IN
         CASE it.k = "lit" ->
                IF pos <= Len(s) /\ s[pos] \in it.toks
                THEN MatchFrom(s, pat, k + 1, pos + 1, SetCap(caps, it.g, pos, pos + 1))
                ELSE NoMatch
           [] it.k = "ws" -> TryGreedy(s, pat, k, pos, caps, Run(s, pos, WS))
           [] it.k = "lazy" -> TryLazy(s, pat, k, pos, caps, 0, DotRun(s, pos, it.dotall))
           [] it.k = "ahead" ->
                IF pos > Len(s) \/ s[pos] \in it.toks
                THEN MatchFrom(s, pat, k + 1, pos, caps)
                ELSE NoMatch
TryGreedy(s, pat, k, pos, caps, n) ==
    IF n < pat[k].min THEN NoMatch
    ELSE LET r == MatchFrom(s, pat, k + 1, pos + n, caps) IN
         IF r.ok THEN r ELSE TryGreedy(s, pat, k, pos, caps, n - 1)
TryLazy(s, pat, k, pos, caps, n, max) ==
    IF n > max THEN NoMatch
    ELSE LET r == MatchFrom(s, pat, k + 1, pos + n, SetCap(caps, pat[k].g, pos, pos + n)) IN
         IF r.ok THEN r ELSE TryLazy(s, pat, k, pos, caps, n + 1, max)

\* re.search from position pos on: the match at the leftmost start
RECURSIVE Search(_, _, _)
Search(s, pat, pos) ==
    IF pos > Len(s) + 1 THEN NoMatch
    ELSE LET r == MatchFrom(s, pat, 1, pos, NoCaps) IN
         IF r.ok THEN [r EXCEPT !.start = pos] ELSE Search(s, pat, pos + 1)

\* re.finditer: the non-overlapping matches, left to right
RECURSIVE FindIter(_, _, _)
FindIter(s, pat, pos) ==
    LET m == Search(s, pat, pos) IN
    IF ~m.ok THEN <<>>
    ELSE <<m>> \o FindIter(s, pat, IF m.end = m.start THEN m.end + 1 ELSE m.end)

\* match.group(g); group 0 is the whole match
Group(s, m, g) ==
    IF g = 0 THEN SubSeq(s, m.start, m.end - 1)
    ELSE SubSeq(s, m.caps[g][1], m.caps[g][2] - 1)

(* --------------------------- str methods ------------------------------- *)
RECURSIVE LStrip(_, _)
LStrip(s, S) == IF s # <<>> /\ Head(s) \in S THEN LStrip(Tail(s), S) ELSE s
RECURSIVE RStrip(_, _)
RStrip(s, S) ==
    IF s # <<>> /\ s[Len(s)] \in S THEN RStrip(SubSeq(s, 1, Len(s) - 1), S) ELSE s
\* str.strip()
Strip(s) == LStrip(RStrip(s, WS), WS)

\* re.sub(r'\s+', ' ', s)
RECURSIVE CollapseWs(_)
CollapseWs(s) ==
    IF s = <<>> THEN <<>>
    ELSE IF Head(s) \in WS THEN <<SP>> \o CollapseWs(LStrip(s, WS))
    ELSE <<Head(s)>> \o CollapseWs(Tail(s))

\* re.sub(r'///\s*', '', s)
RECURSIVE DropMarkers(_)
DropMarkers(s) ==
    IF s = <<>> THEN <<>>
    ELSE IF Head(s) = "///" THEN DropMarkers(LStrip(Tail(s), WS))
    ELSE <<Head(s)>> \o DropMarkers(Tail(s))

\* str.split('\n')
RECURSIVE Split(_)
Split(s) ==
    LET n == RunUntil(s, 1, NL) IN
    IF n = Len(s) THEN <<s>>
    ELSE <<SubSeq(s, 1, n)>> \o Split(SubSeq(s, n + 2, Len(s)))

(* ----------------------- the program's patterns ------------------------ *)
\* r'///\s*<summary>(.*?)</summary>.*?public\s+(class|enum|interface)\s+(\w+)'
class_pattern ==
    <<Lit("///"), WsStar, Lit("<summary>"), Lazy(TRUE, 1), Lit("</summary>"),
      Lazy(TRUE, 0), Lit("public"), WsPlus, OneOf(Kinds, 2), WsPlus, Word(3)>>
\* r'public\s+(class|enum|interface)\s+(\w+)'
simple_class == <<Lit("public"), WsPlus, OneOf(Kinds, 1), WsPlus, Word(2)>>
\* r'///\s*<summary>(.*?)</summary>(.*?)(?=///|\Z)'
member_pattern ==
    <<Lit("///"), WsStar, Lit("<summary>"), Lazy(TRUE, 1), Lit("</summary>"),
      Lazy(TRUE, 2), Ahead({"///"})>>
\* r'public\s+.*?\s+(\w+)\s*\('
method_pattern ==
    <<Lit("public"), WsPlus, Lazy(FALSE, 0), WsPlus, Word(1), WsStar, Lit("(")>>
\* r'public\s+.*?\s+(\w+)\s*{'
prop_pattern ==
    <<Lit("public"), WsPlus, Lazy(FALSE, 0), WsPlus, Word(1), WsStar, Lit("{")>>
\* r'public\s+(\w+)\s*\('
ctor_pattern == <<Lit("public"), WsPlus, Word(1), WsStar, Lit("(")>>
\* r'///\s*<param name="([^"]+)">(.*?)</param>'
param_pattern ==
    <<Lit("///"), WsStar, OneOf(ParamOpen, 1), Lazy(TRUE, 2), Lit("</param>")>>
\* r'///\s*<returns>(.*?)</returns>'
returns_pattern ==
    <<Lit("///"), WsStar, Lit("<returns>"), Lazy(TRUE, 1), Lit("</returns>")>>

NoDocumentation == <<"No", SP, "documentation", SP, "available">>

(* --------------------------- extraction -------------------------------- *)
\* re.sub(r'\s+', ' ', text.strip()) followed by re.sub(r'///\s*', '', ...)
CleanText(s) == DropMarkers(CollapseWs(Strip(s)))

\* extract_class_info whose fallback takes the last declaration of the file
extract_class_info_last(content) ==
    LET match == Search(content, class_pattern, 1)
        simple == FindIter(content, simple_class, 1)
    IN  IF match.ok
        THEN Some([name |-> Group(content, match, 3)[1],
                   type |-> Group(content, match, 2)[1],
                   summary |-> CleanText(Group(content, match, 1))])
        ELSE IF simple # <<>>
        THEN Some([name |-> Group(content, simple[Len(simple)], 2)[1],
                   type |-> Group(content, simple[Len(simple)], 1)[1],
                   summary |-> NoDocumentation])
        ELSE None

extract_class_info(content) ==
    LET match == Search(content, class_pattern, 1)
        simple == Search(content, simple_class, 1)
    IN  IF match.ok
        THEN Some([name |-> Group(content, match, 3)[1],
                   type |-> Group(content, match, 2)[1],
                   summary |-> CleanText(Group(content, match, 1))])
        ELSE IF simple.ok
        THEN Some([name |-> Group(content, simple, 2)[1],
                   type |-> Group(content, simple, 1)[1],
                   summary |-> NoDocumentation])
        ELSE None

\* line.rstrip('{').strip()
\* the signature with only the last open brace of the line removed
Signature_one_brace(line) ==
    Strip(IF line # <<>> /\ line[Len(line)] = "{"
          THEN SubSeq(line, 1, Len(line) - 1) ELSE line)

Signature(line) == Strip(RStrip(line, {"{"}))

\* the checks of find_member_declaration with the Property check first
ClassifyLine_PropertyFirst(line) ==
    LET method_match == Search(line, method_pattern, 1)
        prop_match == Search(line, prop_pattern, 1)
        ctor_match == Search(line, ctor_pattern, 1)
    IN  IF prop_match.ok
        THEN Some([name |-> Group(line, prop_match, 1)[1], type |-> "Property",
                   signature |-> Signature(line)])
        ELSE IF method_match.ok
        THEN Some([name |-> Group(line, method_match, 1)[1], type |-> "Method",
                   signature |-> Signature(line)])
        ELSE IF ctor_match.ok
        THEN Some([name |-> Group(line, ctor_match, 1)[1], type |-> "Constructor",
                   signature |-> Signature(line)])
        ELSE None

\* the three checks of find_member_declaration on one stripped line
ClassifyLine(line) ==
    LET method_match == Search(line, method_pattern, 1)
        prop_match == Search(line, prop_pattern, 1)
        ctor_match == Search(line, ctor_pattern, 1)
    IN  IF method_match.ok
        THEN Some([name |-> Group(line, method_match, 1)[1], type |-> "Method",
                   signature |-> Signature(line)])
        ELSE IF prop_match.ok
        THEN Some([name |-> Group(line, prop_match, 1)[1], type |-> "Property",
                   signature |-> Signature(line)])
        ELSE IF ctor_match.ok
        THEN Some([name |-> Group(line, ctor_match, 1)[1], type |-> "Constructor",
                   signature |-> Signature(line)])
        ELSE None

\* the loop of find_member_declaration from line n on: the number of the line
\* it returns at and what it returns there (0 and None past the last line)
RECURSIVE ScanLines(_, _)
ScanLines(lines, n) ==
    IF n > Len(lines) THEN [at |-> 0, decl |-> None]
    ELSE LET line == Strip(lines[n]) IN
         IF line = <<>> \/ line[1] \in {"///", "//"} THEN ScanLines(lines, n + 1)
         ELSE IF ClassifyLine(line) # None
         THEN [at |-> n, decl |-> ClassifyLine(line)]
         ELSE ScanLines(lines, n + 1)

find_member_declaration(code_block) == ScanLines(Split(code_block), 1).decl

extract_parameters(doc_block) ==
    LET ms == FindIter(doc_block, param_pattern, 1) IN
    [n \in 1..Len(ms) |->
        [name |-> ParamName(Group(doc_block, ms[n], 1)[1]),
         description |-> CleanText(Group(doc_block, ms[n], 2))]]

extract_returns(doc_block) ==
    LET match == Search(doc_block, returns_pattern, 1) IN
    IF match.ok THEN Some(CleanText(Group(doc_block, match, 1))) ELSE None

\* the members appended for the matches ms[n], ms[n+1], ...
RECURSIVE MembersOf(_, _, _)
MembersOf(content, ms, n) ==
    IF n > Len(ms) THEN <<>>
    ELSE LET member_decl == find_member_declaration(Group(content, ms[n], 2)) IN
         (IF member_decl = None THEN <<>>
          ELSE <<[name |-> member_decl[1].name,
                  type |-> member_decl[1].type,
                  signature |-> member_decl[1].signature,
                  summary |-> CleanText(Group(content, ms[n], 1)),
                  parameters |-> extract_parameters(Group(content, ms[n], 0)),
                  returns |-> extract_returns(Group(content, ms[n], 0))]>>)
         \o MembersOf(content, ms, n + 1)

\* the turns of the loop of extract_members: where the match starts, and the
\* summary and the code_block of the turn
LoopTurns(content) ==
    LET ms == FindIter(content, member_pattern, 1) IN
    [n \in 1..Len(ms) |->
        [start |-> ms[n].start,
         summary |-> CleanText(Group(content, ms[n], 1)),
         code_block |-> Group(content, ms[n], 2)]]

extract_members(content) == MembersOf(content, FindIter(content, member_pattern, 1), 1)

(* ---------------------------- rendering -------------------------------- *)
\* str.lower() on the three type keywords
Lower(type) ==
    CASE type = "class" -> "class" [] type = "enum" -> "enum"
      [] type = "interface" -> "interface"

RECURSIVE Select(_, _)
Select(members, type) ==
    IF members = <<>> THEN <<>>
    ELSE (IF Head(members).type = type THEN <<Head(members)>> ELSE <<>>)
         \o Select(Tail(members), type)

\* one section of the page: its heading, then write_member_doc per member
Section(title, ms) ==
    IF ms = <<>> THEN <<>>
    ELSE <<<<"section", title>>>> \o [n \in 1..Len(ms) |-> <<"member", ms[n]>>]

\* generate_class_doc writing its sections in the order it builds its lists
generate_class_doc_methods_first(info, members) ==
    LET header == << <<"title", info.name, info.type>>, <<"attribution">>, <<"rule">>,
                     <<"overview", info.summary>>,
                     <<"skeleton", Lower(info.type), info.name>> >>
    IN  IF members = <<>> THEN header \o << <<"no_members">> >>
        ELSE header
             \o Section("Constructors", Select(members, "Constructor"))
             \o Section("Methods", Select(members, "Method"))
             \o Section("Properties", Select(members, "Property"))
             \o << <<"rule">>, <<"closing">> >>

\* generate_class_doc without the return after the notice
generate_class_doc_no_return(info, members) ==
    << <<"title", info.name, info.type>>, <<"attribution">>, <<"rule">>,
       <<"overview", info.summary>>, <<"skeleton", Lower(info.type), info.name>> >>
    \o (IF members = <<>> THEN << <<"no_members">> >> ELSE <<>>)
    \o Section("Constructors", Select(members, "Constructor"))
    \o Section("Properties", Select(members, "Property"))
    \o Section("Methods", Select(members, "Method"))
    \o << <<"rule">>, <<"closing">> >>

\* the writes of generate_class_doc, in order
generate_class_doc(info, members) ==
    LET header == << <<"title", info.name, info.type>>, <<"attribution">>, <<"rule">>,
                     <<"overview", info.summary>>,
                     <<"skeleton", Lower(info.type), info.name>> >>
    IN  IF members = <<>> THEN header \o << <<"no_members">> >>
        ELSE header
             \o Section("Constructors", Select(members, "Constructor"))
             \o Section("Properties", Select(members, "Property"))
             \o Section("Methods", Select(members, "Method"))
             \o << <<"rule">>, <<"closing">> >>

\* generate_api_index listing the classes last to first
generate_api_index_reversed(classes) ==
    << <<"header">> >>
    \o [n \in 1..Len(classes) |->
          <<"entry", classes[Len(classes) + 1 - n].name,
            classes[Len(classes) + 1 - n].summary,
            classes[Len(classes) + 1 - n].member_count>>]
    \o << <<"footer">> >>

\* the writes of generate_api_index, in order
generate_api_index(classes) ==
    << <<"header">> >>
    \o [n \in 1..Len(classes) |->
          <<"entry", classes[n].name, classes[n].summary, classes[n].member_count>>]
    \o << <<"footer">> >>

(* ------------------------------ inputs --------------------------------- *)
\* the source files a run may find
Corpus ==
    { Concat(<<F_NOTE, F_FIELD>>),
      Concat(<<F_SUM, F_ADD>>),
      F_CLASS,
      F_ENUM,
      Concat(<<F_SUM, F_CLASS>>),
      Concat(<<F_SUM, F_ENUM>>),
      Concat(<<F_CLASS, F_SUM, F_ADD>>),
      Concat(<<F_SUMML, F_CLASS, F_SUM, F_ADD, F_SUM, F_PROP, F_SUM, F_CTOR>>) }

FileLists == UNION {[1..n -> Corpus] : n \in 0..MaxFiles}

(* ------------------------------ state ---------------------------------- *)
VARIABLES
    cs_files,     \* generate_docs: the files found, in discovery order
    pc,           \* generate_docs: where the run is
    cur,          \* generate_docs: the number of the next file of the loop
    all_classes,  \* generate_docs: the entries collected so far
    disk,         \* the output tree: path -> what was last written there
    writes,       \* the paths written by the run, in order
    content,      \* the text handed to an extraction function
    xpc,          \* which extraction function has been applied to content
    class_info,   \* the value extract_class_info returned
    members,      \* the value extract_members returned
    code_blocks,  \* the summary and code_block of each turn of its loop
    member_decl   \* the value find_member_declaration returned

vars == <<cs_files, pc, cur, all_classes, disk, writes,
          content, xpc, class_info, members, code_blocks, member_decl>>
runVars == <<cs_files, pc, cur, all_classes, disk, writes>>
funVars == <<content, xpc, class_info, members, code_blocks, member_decl>>

ApiPage(name) == <<"api", name>>
ApiIndex == <<"api", "README">>
GuidePages == <<"guide", "README">>
ExamplePages == <<"examples", "README">>

\* a write that leaves an existing file as it is
Write_keep(d, path, text) ==
    [p \in DOMAIN d \cup {path} |-> IF p \in DOMAIN d THEN d[p] ELSE text]

\* open(path, 'w') and the writes that follow: the file holds text
Write(d, path, text) == [p \in DOMAIN d \cup {path} |-> IF p = path THEN text ELSE d[p]]

(* ----------------------- the run of generate_docs ---------------------- *)
Init ==
    /\ cs_files \in FileLists
    /\ pc = "start"
    /\ cur = 1
    /\ all_classes = <<>>
    /\ disk = <<>>
    /\ writes = <<>>
    /\ content = <<>>
    /\ xpc = "idle"
    /\ class_info = None
    /\ members = <<>>
    /\ code_blocks = <<>>
    /\ member_decl = None

\* generate_docs up to its loop: the directories, the file list
Start ==
    /\ pc = "start"
    /\ pc' = "loop"
    /\ all_classes' = <<>>
    /\ cur' = 1
    /\ UNCHANGED <<cs_files, disk, writes, funVars>>

\* process_cs_file giving up on a file without documented members
process_cs_file_documented_only(cs_file, text) ==
    LET info == extract_class_info(text)
        ms == extract_members(text)
    IN  IF info = None \/ ms = <<>> THEN [page |-> None, returned |-> None]
        ELSE [page |-> Some([path |-> ApiPage(info[1].name),
                             text |-> generate_class_doc(info[1], ms)]),
              returned |-> Some([name |-> info[1].name, file |-> cs_file,
                                 summary |-> info[1].summary,
                                 member_count |-> Len(ms)])]

\* process_cs_file on the file numbered cs_file holding text: the page it
\* writes (None for a file without a unit) and the value it returns
process_cs_file(cs_file, text) ==
    LET info == extract_class_info(text)
        ms == extract_members(text)
    IN  IF info = None THEN [page |-> None, returned |-> None]
        ELSE [page |-> Some([path |-> ApiPage(info[1].name),
                             text |-> generate_class_doc(info[1], ms)]),
              returned |-> Some([name |-> info[1].name, file |-> cs_file,
                                 summary |-> info[1].summary,
                                 member_count |-> Len(ms)])]

\* one turn of the loop of generate_docs: process_cs_file reads the file and
\* writes its page, and what it returned is appended unless it is None
ProcessFile ==
    /\ pc = "loop"
    /\ cur <= Len(cs_files)
    /\ LET r == process_cs_file(cur, cs_files[cur]) IN
       /\ IF r.page = None THEN UNCHANGED <<disk, writes>>
          ELSE /\ disk' = Write(disk, r.page[1].path, r.page[1].text)
               /\ writes' = Append(writes, r.page[1].path)
       /\ all_classes' = all_classes \o r.returned
    /\ cur' = cur + 1
    /\ UNCHANGED <<cs_files, pc, funVars>>

\* open() or read() raises in process_cs_file: nothing catches it
ReadError ==
    /\ pc = "loop"
    /\ cur <= Len(cs_files)
    /\ pc' = "aborted"
    /\ UNCHANGED <<cs_files, cur, all_classes, disk, writes, funVars>>

\* generate_api_index called from a finally clause: also after a failed read
GenerateApiIndex_finally ==
    /\ \/ pc = "loop" /\ cur > Len(cs_files)
       \/ pc = "aborted"
    /\ disk' = Write(disk, ApiIndex, generate_api_index(all_classes))
    /\ writes' = Append(writes, ApiIndex)
    /\ pc' = "guide"
    /\ UNCHANGED <<cs_files, cur, all_classes, funVars>>

\* the loop is over: generate_docs calls generate_api_index
GenerateApiIndex ==
    /\ pc = "loop"
    /\ cur > Len(cs_files)
    /\ disk' = Write(disk, ApiIndex, generate_api_index(all_classes))
    /\ writes' = Append(writes, ApiIndex)
    /\ pc' = "guide"
    /\ UNCHANGED <<cs_files, cur, all_classes, funVars>>

GenerateGuidePages ==
    /\ pc = "guide"
    /\ disk' = Write(disk, GuidePages, << <<"guide">> >>)
    /\ writes' = Append(writes, GuidePages)
    /\ pc' = "examples"
    /\ UNCHANGED <<cs_files, cur, all_classes, funVars>>

GenerateExamplePages ==
    /\ pc = "examples"
    /\ disk' = Write(disk, ExamplePages, << <<"examples">> >>)
    /\ writes' = Append(writes, ExamplePages)
    /\ pc' = "done"
    /\ UNCHANGED <<cs_files, cur, all_classes, funVars>>

Next ==
    \/ Start
    \/ ProcessFile
    \/ ReadError
    \/ GenerateApiIndex
    \/ GenerateGuidePages
    \/ GenerateExamplePages

Spec == Init /\ [][Next]_vars

(* ------------------ the extraction functions on a text ----------------- *)
ExtractInit ==
    /\ content \in {TextOf(fs) : fs \in FragSeqs}
    /\ xpc = "ready"
    /\ class_info = None
    /\ members = <<>>
    /\ code_blocks = <<>>
    /\ member_decl = None
    /\ cs_files = <<>>
    /\ pc = "idle"
    /\ cur = 1
    /\ all_classes = <<>>
    /\ disk = <<>>
    /\ writes = <<>>

ExtractClassInfo ==
    /\ xpc = "ready"
    /\ class_info' = extract_class_info(content)
    /\ xpc' = "class_info"
    /\ UNCHANGED <<content, members, code_blocks, member_decl, runVars>>

ExtractMembers ==
    /\ xpc = "ready"
    /\ members' = extract_members(content)
    /\ code_blocks' = LoopTurns(content)
    /\ xpc' = "members"
    /\ UNCHANGED <<content, class_info, member_decl, runVars>>

\* find_member_declaration with content as its code block
FindMemberDeclaration ==
    /\ xpc = "ready"
    /\ member_decl' = find_member_declaration(content)
    /\ xpc' = "member_decl"
    /\ UNCHANGED <<content, class_info, members, code_blocks, runVars>>

ExtractNext ==
    \/ ExtractClassInfo
    \/ ExtractMembers
    \/ FindMemberDeclaration

ExtractSpec == ExtractInit /\ [][ExtractNext]_vars

(* ======================= properties of the source ====================== *)
Range(s) == {s[n] : n \in DOMAIN s}
Contains(s, sub) ==
    \E p \in 0..(Len(s) - Len(sub)) : SubSeq(s, p + 1, p + Len(sub)) = sub

\* a declaration "public class|enum|interface Name" starts at token p of s
TypeDeclAt(s, p) ==
    /\ s[p] = "public"
    /\ Run(s, p + 1, WS) >= 1
    /\ LET q == p + 1 + Run(s, p + 1, WS) IN
       /\ q <= Len(s)
       /\ s[q] \in Kinds
       /\ Run(s, q + 1, WS) >= 1
       /\ q + 1 + Run(s, q + 1, WS) <= Len(s)
       /\ s[q + 1 + Run(s, q + 1, WS)] \in Words
DeclKind(s, p) == s[p + 1 + Run(s, p + 1, WS)]
DeclName(s, p) ==
    LET q == p + 1 + Run(s, p + 1, WS) IN s[q + 1 + Run(s, q + 1, WS)]
TypeDecls(s) == {p \in 1..Len(s) : TypeDeclAt(s, p)}
HasTypeDecl(s) == TypeDecls(s) # {}
Least(S) == CHOOSE p \in S : \A q \in S : p <= q

\* the summary comments of s: "///", white space, <summary>, the body up to
\* the first </summary>; from = the marker, to = the token after </summary>
SummaryAt(s, p) ==
    /\ s[p] = "///"
    /\ p + 1 + Run(s, p + 1, WS) <= Len(s)
    /\ s[p + 1 + Run(s, p + 1, WS)] = "<summary>"
    /\ LET q == p + 1 + Run(s, p + 1, WS) IN
       q + 1 + RunUntil(s, q + 1, "</summary>") <= Len(s)
SummaryBody(s, p) ==
    LET q == p + 1 + Run(s, p + 1, WS) IN
    SubSeq(s, q + 1, q + RunUntil(s, q + 1, "</summary>"))
SummaryEnd(s, p) ==
    LET q == p + 1 + Run(s, p + 1, WS) IN q + 2 + RunUntil(s, q + 1, "</summary>")
Summaries(s) == {p \in 1..Len(s) : SummaryAt(s, p)}

\* line n of the lines is one find_member_declaration looks at
Considered(line) == Strip(line) # <<>> /\ Strip(line)[1] \notin {"///", "//"}
Matches(line, pat) == \E p \in 1..Len(line) : MatchFrom(line, pat, 1, p, NoCaps).ok
MatchesAny(line) ==
    /\ Considered(line)
    /\ \/ Matches(Strip(line), method_pattern)
       \/ Matches(Strip(line), prop_pattern)
       \/ Matches(Strip(line), ctor_pattern)
\* the first line of a block that matches one of the three patterns, or 0
FirstMatching(lines) ==
    IF \E n \in 1..Len(lines) : MatchesAny(lines[n])
    THEN Least({n \in 1..Len(lines) : MatchesAny(lines[n])})
    ELSE 0

(* ------------------------------- C1 ------------------------------------ *)
AddSignature ==
    <<"public", SP, "int", SP, "Add", "(", "int", SP, "a", ",", SP, "int", SP, "b", ")">>
AddMember(m) ==
    /\ m.name = "Add"
    /\ m.type = "Method"
    /\ m.parameters = <<[name |-> "a", description |-> <<"first">>],
                        [name |-> "b", description |-> <<"second">>]>>
    /\ m.returns = Some(<<"sum">>)
    /\ m.signature = AddSignature

\* C1: whenever a summary comment block carrying the param and returns
\* annotations stands immediately above the declaration line of the method
\* Add, extract_members yields a Method member Add with parameters
\* [(a, first), (b, second)], returns sum and the declaration line without its
\* open brace as signature.
C1_AnnotatedMethodExtracted ==
    (/\ xpc = "members"
     /\ \E doc \in {F_SUM, F_SUMML} : Contains(content, doc \o F_PARAMS \o F_ADD))
    => \E n \in 1..Len(members) : AddMember(members[n])

(* ------------------------------- C2 ------------------------------------ *)
\* the type declarations of s with a summary comment immediately before them
DocumentedTypes(s) ==
    {pr \in Summaries(s) \X TypeDecls(s) :
        pr[2] = SummaryEnd(s, pr[1]) + Run(s, SummaryEnd(s, pr[1]), WS)}

\* C2: when a summary comment immediately precedes a public
\* class/enum/interface declaration, extract_class_info returns a unit whose
\* summary is the normalized text of the comment immediately before a
\* declaration and whose name and kind are those of that declaration.
C2_SummaryOfNearestComment ==
    (xpc = "class_info" /\ DocumentedTypes(content) # {})
    => \E pr \in DocumentedTypes(content) :
          class_info = Some([name |-> DeclName(content, pr[2]),
                             type |-> DeclKind(content, pr[2]),
                             summary |-> CleanText(SummaryBody(content, pr[1]))])

(* ------------------------------- C3 ------------------------------------ *)
FirstDeclUnit(s) ==
    Some([name |-> DeclName(s, Least(TypeDecls(s))),
          type |-> DeclKind(s, Least(TypeDecls(s))),
          summary |-> NoDocumentation])

\* C3 as stated: when the first public class/enum/interface declaration of
\* the text has no summary comment before it, extract_class_info returns the
\* unit of that declaration with the sentinel summary.
C3_UncommentedDeclGetsSentinel ==
    (/\ xpc = "class_info"
     /\ HasTypeDecl(content)
     /\ \A p \in Summaries(content) : p > Least(TypeDecls(content)))
    => class_info = FirstDeclUnit(content)

\* no summary comment of s is followed, anywhere later, by a type declaration
NoCommentBeforeAnyDecl(s) ==
    \A p \in Summaries(s) : \A d \in TypeDecls(s) : d < SummaryEnd(s, p)

\* C3 amended: when the text has a public class/enum/interface declaration
\* and no summary comment is followed by such a declaration, the unit is that
\* of the first declaration of the text with the sentinel summary.
C3_FallbackGetsSentinel ==
    (/\ xpc = "class_info"
     /\ HasTypeDecl(content)
     /\ NoCommentBeforeAnyDecl(content))
    => class_info = FirstDeclUnit(content)

\* a text with two declarations and a summary comment after them, answered
\* by the fallback
C3_Witness ==
    /\ xpc = "class_info"
    /\ Cardinality(TypeDecls(content)) >= 2
    /\ Summaries(content) # {}
    /\ NoCommentBeforeAnyDecl(content)
    /\ class_info = FirstDeclUnit(content)
    /\ class_info[1].name # DeclName(content, CHOOSE d \in TypeDecls(content) :
                                                \A e \in TypeDecls(content) : e <= d)

(* ------------------------------- C5 ------------------------------------ *)
\* C5: when the first line of a block that matches any of the three patterns
\* matches the Method pattern, find_member_declaration classifies the member
\* as Method, also when that line matches the Property or Constructor pattern.
C5_MethodCheckFirst ==
    LET lines == Split(content)
        n == FirstMatching(lines)
    IN  (/\ xpc = "member_decl"
         /\ n # 0
         /\ Matches(Strip(lines[n]), method_pattern))
        => (member_decl # None /\ member_decl[1].type = "Method")

\* a first matching line that matches the Method and the Property pattern
C5_Witness ==
    LET lines == Split(content)
        n == FirstMatching(lines)
    IN  /\ xpc = "member_decl"
        /\ n # 0
        /\ Matches(Strip(lines[n]), method_pattern)
        /\ Matches(Strip(lines[n]), prop_pattern)
        /\ member_decl # None
        /\ member_decl[1].type = "Method"

(* ------------------------------- C10 ----------------------------------- *)
\* the first line of the lines that is neither blank nor a comment line, or 0
FirstCode(lines) ==
    IF \E n \in 1..Len(lines) : Considered(lines[n])
    THEN Least({n \in 1..Len(lines) : Considered(lines[n])})
    ELSE 0

\* s has a summary comment with this normalized summary whose block is
\* directly followed by a declaration line with this signature
OwnComment(s, summary, signature) ==
    \E p \in Summaries(s) :
        LET lines == Split(SubSeq(s, SummaryEnd(s, p), Len(s))) IN
        /\ CleanText(SummaryBody(s, p)) = summary
        /\ FirstCode(lines) # 0
        /\ Signature(Strip(lines[FirstCode(lines)])) = signature

\* C10: every extracted member is a declaration with its own summary comment
\* block directly before it; no declaration line is extracted carrying the
\* summary of a comment block that stands before an earlier line.
C10_MemberHasOwnComment ==
    xpc = "members"
    => \A n \in 1..Len(members) :
          OwnComment(content, members[n].summary, members[n].signature)

(* ================== properties of a run of generate_docs =============== *)
\* the files whose turn of the loop is over
Processed == 1..(cur - 1)
UnitFiles == {n \in Processed : HasTypeDecl(cs_files[n])}
IsPage(path) == path[1] = "api" /\ path # ApiIndex
PageWrites == SelectSeq(writes, IsPage)
Tags(page) == [n \in 1..Len(page) |-> page[n][1]]
PageOf(text) == generate_class_doc(extract_class_info(text)[1], extract_members(text))

(* ------------------------------- C4 ------------------------------------ *)
\* C4: a processed file has an entry in the list of units exactly when it
\* holds a public class/enum/interface declaration, and then exactly one; the
\* pages written are those of the units, one each; the index has one entry
\* per unit.
C4_UnitIffDeclaration ==
    /\ \A n \in Processed :
          Cardinality({k \in 1..Len(all_classes) : all_classes[k].file = n})
            = IF HasTypeDecl(cs_files[n]) THEN 1 ELSE 0
    /\ \A k \in 1..Len(all_classes) : all_classes[k].file \in Processed
    /\ Len(PageWrites) = Cardinality(UnitFiles)
    /\ Len(PageWrites) = Len(all_classes)
    /\ \A k \in 1..Len(PageWrites) : PageWrites[k] = ApiPage(all_classes[k].name)
    /\ ApiIndex \in DOMAIN disk => Len(disk[ApiIndex]) = Cardinality(UnitFiles) + 2

\* a finished run over a file without a declaration and a file whose unit has
\* no documented member
C4_Witness ==
    /\ pc = "done"
    /\ Len(cs_files) = 2
    /\ ~HasTypeDecl(cs_files[1])
    /\ Len(all_classes) = 1
    /\ all_classes[1].file = 2
    /\ all_classes[1].member_count = 0
    /\ writes = <<ApiPage(all_classes[1].name), ApiIndex, GuidePages, ExamplePages>>

(* ------------------------------- C6 ------------------------------------ *)
\* the file processed last gave a unit without members
LastUnitHasNoMembers ==
    /\ all_classes # <<>>
    /\ all_classes[Len(all_classes)].file = cur - 1
    /\ all_classes[Len(all_classes)].member_count = 0

\* C6: the page of a unit without members is the title, the attribution, the
\* rule, the overview, the skeleton and the notice, and nothing after it.
C6_EmptyUnitPage ==
    LastUnitHasNoMembers
    => LET unit == all_classes[Len(all_classes)]
           page == disk[ApiPage(unit.name)]
       IN  /\ Tags(page) = <<"title", "attribution", "rule", "overview",
                             "skeleton", "no_members">>
           /\ page[1][2] = unit.name
           /\ page[4][2] = unit.summary
           /\ page[5][3] = unit.name

C6_Witness ==
    /\ LastUnitHasNoMembers
    /\ Len(disk[ApiPage(all_classes[Len(all_classes)].name)]) = 6

(* ------------------------------- C7 ------------------------------------ *)
\* C7: two files giving units of the same name leave two entries of that
\* name, their two page writes go to the same path, that path holds the page
\* of the file processed later, and the index lists both.
C7_SameNameOverwrites ==
    \A j, k \in 1..Len(all_classes) :
        (j < k /\ all_classes[j].name = all_classes[k].name)
        => /\ PageWrites[j] = ApiPage(all_classes[k].name)
           /\ PageWrites[k] = ApiPage(all_classes[k].name)
           /\ (\A l \in 1..Len(all_classes) :
                  all_classes[l].name = all_classes[k].name => l <= k)
              => disk[ApiPage(all_classes[k].name)]
                   = PageOf(cs_files[all_classes[k].file])
           /\ ApiIndex \in DOMAIN disk
              => /\ disk[ApiIndex][j + 1][2] = all_classes[k].name
                 /\ disk[ApiIndex][k + 1][2] = all_classes[k].name

\* a finished run over two files that declare the same name and render to
\* different pages
C7_Witness ==
    /\ pc = "done"
    /\ Len(all_classes) = 2
    /\ all_classes[1].name = all_classes[2].name
    /\ PageOf(cs_files[all_classes[1].file]) # PageOf(cs_files[all_classes[2].file])
    /\ disk[ApiPage(all_classes[2].name)] = PageOf(cs_files[all_classes[2].file])

(* ------------------------------- C8 ------------------------------------ *)
\* C8: the units are collected in the order their files are processed, and
\* the index lists them in that order, each once.
C8_IndexInProcessingOrder ==
    /\ \A j, k \in 1..Len(all_classes) :
          j < k => all_classes[j].file < all_classes[k].file
    /\ {all_classes[k].file : k \in 1..Len(all_classes)} = UnitFiles
    /\ ApiIndex \in DOMAIN disk
       => /\ Len(disk[ApiIndex]) = Len(all_classes) + 2
          /\ \A k \in 1..Len(all_classes) :
                disk[ApiIndex][k + 1]
                  = <<"entry", all_classes[k].name, all_classes[k].summary,
                      all_classes[k].member_count>>

\* an index listing Foo before Bar
C8_Witness ==
    /\ pc = "done"
    /\ Len(disk[ApiIndex]) = 4
    /\ disk[ApiIndex][2][2] = "Foo"
    /\ disk[ApiIndex][3][2] = "Bar"
    /\ all_classes[1].file < all_classes[2].file

(* ------------------------------- C9 ------------------------------------ *)
AbortedState ==
    /\ {ApiIndex, GuidePages, ExamplePages} \cap DOMAIN disk = {}
    /\ {ApiIndex, GuidePages, ExamplePages} \cap Range(writes) = {}
    /\ {all_classes[k].file : k \in 1..Len(all_classes)} = UnitFiles
    /\ \A k \in 1..Len(all_classes) : ApiPage(all_classes[k].name) \in DOMAIN disk

\* C9: once a read has failed, the index and the guide and example pages are
\* not written, no further file is processed, and the pages written for the
\* files before the failing one stay.
C9_ReadFailureAborts ==
    /\ [](pc = "aborted" => AbortedState)
    /\ [][pc = "aborted"
          => (pc' = "aborted" /\ UNCHANGED <<cur, all_classes, disk, writes>>)]_vars

\* the read of the second of three files failed after the first gave a page
C9_Witness ==
    /\ pc = "aborted"
    /\ Len(cs_files) = 3
    /\ cur = 2
    /\ writes = <<ApiPage(all_classes[1].name)>>
    /\ HasTypeDecl(cs_files[3])

(* ------------------------------- C11 ----------------------------------- *)
\* the file processed last gave a unit with members
LastUnitHasMembers ==
    /\ all_classes # <<>>
    /\ all_classes[Len(all_classes)].file = cur - 1
    /\ all_classes[Len(all_classes)].member_count > 0

SectionRank(title) ==
    CASE title = "Constructors" -> 1 [] title = "Properties" -> 2
      [] title = "Methods" -> 3
SectionFor(type) ==
    CASE type = "Constructor" -> "Constructors" [] type = "Property" -> "Properties"
      [] type = "Method" -> "Methods"
\* the title of the section that item n of the page stands in
SectionAt(page, n) ==
    page[CHOOSE k \in 1..n : /\ page[k][1] = "section"
                             /\ \A l \in (k + 1)..n : page[l][1] # "section"][2]
\* the members among items, of one type, in order
RECURSIVE OfType(_, _)
OfType(ms, type) ==
    IF ms = <<>> THEN <<>>
    ELSE IF Head(ms).type = type THEN <<Head(ms)>> \o OfType(Tail(ms), type)
    ELSE OfType(Tail(ms), type)
RECURSIVE MemberItems(_)
MemberItems(page) ==
    IF page = <<>> THEN <<>>
    ELSE IF Head(page)[1] = "member" THEN <<Head(page)[2]>> \o MemberItems(Tail(page))
    ELSE MemberItems(Tail(page))

NextLine(s, e) == e + RunUntil(s, e, NL) + 1
\* a comment line that continues a block: it opens no summary of its own
IsAnnotationLine(s, l) == l <= Len(s) /\ s[l] = "///" /\ ~SummaryAt(s, l)
\* the end of the comment block whose summary annotation ends before e: e
\* itself, or the end of the last annotation line that follows
RECURSIVE BlockEnd(_, _)
BlockEnd(s, e) ==
    IF IsAnnotationLine(s, NextLine(s, e))
    THEN BlockEnd(s, NextLine(s, e) + RunUntil(s, NextLine(s, e), NL))
    ELSE e
\* from the end of the comment block at p up to the next "///" or the end
TrailingText(s, p) ==
    LET b == BlockEnd(s, SummaryEnd(s, p)) IN
    SubSeq(s, b, b + RunUntil(s, b, "///") - 1)

\* C12: the code_block of each turn of the loop of extract_members is the
\* text from the end of the comment block, its param and returns lines
\* included, up to the start of the next comment block or the end of input.
C12_TrailingTextToNextBlock ==
    xpc = "members"
    => \A n \in 1..Len(code_blocks) :
          code_blocks[n].code_block = TrailingText(content, code_blocks[n].start)

(* ------------------------------- C13 ----------------------------------- *)
\* the line declares a public class, enum or interface
DeclaresType(line) == \E p \in 1..Len(line) : TypeDeclAt(line, p)

\* C13: find_member_declaration never returns a line that declares a public
\* class/enum/interface as a Method, Property or Constructor, and no extracted
\* member is such a line.
C13_TypeDeclarationIsNoMember ==
    /\ (xpc = "member_decl" /\ member_decl # None)
       => ~DeclaresType(member_decl[1].signature)
    /\ xpc = "members"
       => \A n \in 1..Len(members) : ~DeclaresType(members[n].signature)

(* ------------------------------- C14 ----------------------------------- *)
\* the declaration line of a block: its first matching line, trimmed
DeclLine(block) == Strip(Split(block)[FirstMatching(Split(block))])
\* the turns of the loop whose trailing text has a declaration line
DeclTurns == SelectSeq(code_blocks, LAMBDA t : FirstMatching(Split(t.code_block)) # 0)
\* the number of open braces at the end of the line
RECURSIVE TrailingBraces(_)
TrailingBraces(line) ==
    IF line # <<>> /\ line[Len(line)] = "{"
    THEN 1 + TrailingBraces(SubSeq(line, 1, Len(line) - 1))
    ELSE 0
\* the line without its last character when that is an open brace
DropOneBrace(line) ==
    IF TrailingBraces(line) > 0 THEN SubSeq(line, 1, Len(line) - 1) ELSE line
\* sig is line without leading and trailing whitespace
IsTrimOf(sig, line) ==
    /\ sig = <<>> \/ (sig[1] \notin WS /\ sig[Len(sig)] \notin WS)
    /\ \E i \in 0..Len(line) :
          /\ i + Len(sig) <= Len(line)
          /\ SubSeq(line, i + 1, i + Len(sig)) = sig
          /\ \A j \in 1..Len(line) : (j <= i \/ j > i + Len(sig)) => line[j] \in WS
\* sig is the declaration line with exactly one trailing open brace removed
OneBraceRemoved(sig, line) == IsTrimOf(sig, DropOneBrace(line))
\* sig is the declaration line with its whole trailing run of open braces removed
BraceRunRemoved(sig, line) ==
    IsTrimOf(sig, SubSeq(line, 1, Len(line) - TrailingBraces(line)))

\* C14 (as stated): the signature of every extracted member is the trimmed
\* declaration line with exactly one trailing open brace removed when the line
\* ends with one; a line ending in several open braces loses only the last.
C14_OneTrailingBraceRemoved ==
    /\ (xpc = "member_decl" /\ member_decl # None)
       => OneBraceRemoved(member_decl[1].signature, DeclLine(content))
    /\ xpc = "members"
       => /\ Len(members) = Len(DeclTurns)
          /\ \A n \in 1..Len(members) :
                OneBraceRemoved(members[n].signature, DeclLine(DeclTurns[n].code_block))

\* C14 (amended): the signature of every extracted member is the trimmed
\* declaration line with the whole run of open braces at its end removed and
\* the rest trimmed again; a line not ending in an open brace is returned
\* trimmed but otherwise unchanged.
C14_TrailingBraceRunRemoved ==
    /\ (xpc = "member_decl" /\ member_decl # None)
       => BraceRunRemoved(member_decl[1].signature, DeclLine(content))
    /\ xpc = "members"
       => /\ Len(members) = Len(DeclTurns)
          /\ \A n \in 1..Len(members) :
                BraceRunRemoved(members[n].signature, DeclLine(DeclTurns[n].code_block))

\* an extracted member whose declaration line ends in two open braces
C14_Witness ==
    /\ xpc = "members"
    /\ Len(members) = 1
    /\ Len(DeclTurns) = 1
    /\ TrailingBraces(DeclLine(DeclTurns[1].code_block)) = 2
    /\ members[1].signature = <<"public", SP, "int", SP, "Count">>

(* ------------------------------- C15 ----------------------------------- *)
\* the text is whitespace-normalized and marker-stripped
IsNormalized(t) ==
    /\ "///" \notin Range(t)
    /\ \A i \in 1..Len(t) : t[i] \in WS => t[i] = SP
    /\ \A i \in 1..(Len(t) - 1) : ~(t[i] \in WS /\ t[i + 1] \in WS)
    /\ t = <<>> \/ (t[1] \notin WS /\ t[Len(t)] \notin WS)
    /\ CleanText(t) = t

\* C15: every summary extracted from a summary annotation, of a unit or of a
\* member, has no '///' marker, only single spaces between words and no leading
\* or trailing whitespace, and normalizing it again returns it unchanged.
C15_SummaryNormalized ==
    /\ (xpc = "class_info" /\ class_info # None
          /\ Search(content, class_pattern, 1).ok)
       => IsNormalized(class_info[1].summary)
    /\ xpc = "members"
       => /\ \A n \in 1..Len(members) : IsNormalized(members[n].summary)
          /\ \A n \in 1..Len(code_blocks) : IsNormalized(code_blocks[n].summary)
=============================================================================
